---------------------------- MODULE Spec2Model ----------------------------
(***************************************************************************)
(* A model of the diff package: the path codec (json_path._join_path and   *)
(* patch._tokenize_json_path), the tree walker (json_path.iter_json_paths),*)
(* the differ (diff.diff) and the patcher with its primitives              *)
(* (patch.set/get/delete/pop_by_json_path, patch.patch).                   *)
(*                                                                         *)
(* Python objects live in a heap: a dict or a list is an object with an    *)
(* address, and a value is None, a number, or a reference to an object.    *)
(* In-place mutation (current[tok] = value, del current[leaf], extend)     *)
(* rewrites one object of the heap; copy.deepcopy allocates new objects.   *)
(* A str is a sequence of one-character strings.                           *)
(***************************************************************************)
EXTENDS Integers, Sequences, FiniteSets, TLC

VARIABLES
    heap,     \* the objects: heap[a] is the dict or list at address a
    base,     \* the value handed to diff as old and to patch as base; the doc of the primitives
    target,   \* the value handed to diff as new
    edits,    \* the list diff returned
    res,      \* what the last call did: its arguments, its result, the exception it raised
    lit,      \* the literals base and target were built from
    pc        \* "start", "diffed", "patched"; "prim" while the primitives are called

vars == <<heap, base, target, edits, res, lit, pc>>

----------------------------------------------------------------------------
(* Bounds of the model *)

\* a document given to diff and patch has at most this many nodes
MaxNodes == 3
\* and the two documents of one diff have at most this many nodes together
MaxPairNodes == 5
\* documents given to the primitives have at most this many nodes
MaxPrimNodes == 4
\* the paths given to the primitives have at most this many tokens
MaxPathLen == 3

----------------------------------------------------------------------------
(* Values, objects, trees *)

None == [k |-> "null", v |-> 0]
Num(n) == [k |-> "num", v |-> n]
Ref(a) == [k |-> "ref", v |-> a]

IsRef(val) == val.k = "ref"
IsNone(val) == val.k = "null"

\* isinstance(val, dict), isinstance(val, list)
IsDict(h, val) == IsRef(val) /\ h[val.v].k = "dict"
IsList(h, val) == IsRef(val) /\ h[val.v].k = "list"

\* A dict keeps its keys in insertion order: ks[i] is the i-th key, it[i] its value.
\* A list has no keys: it[i] is the element at index i - 1.
NewDict == [k |-> "dict", ks |-> <<>>, it |-> <<>>]
NewList == [k |-> "list", ks |-> <<>>, it |-> <<>>]

Range(s) == {s[i] : i \in DOMAIN s}

\* the position of key in the dict object o; 0 when absent
KeyPos(o, key) ==
    IF \E i \in DOMAIN o.ks : o.ks[i] = key
    THEN CHOOSE i \in DOMAIN o.ks : o.ks[i] = key
    ELSE 0

\* s without its i-th element
RemoveAt(s, i) == [j \in 1..(Len(s) - 1) |-> IF j < i THEN s[j] ELSE s[j + 1]]

\* current[key] = val on a dict object: an existing key keeps its place, a new
\* key goes last
DictSet(o, key, val) ==
    IF KeyPos(o, key) > 0
    THEN [o EXCEPT !.it[KeyPos(o, key)] = val]
    ELSE [o EXCEPT !.ks = Append(@, key), !.it = Append(@, val)]

\* del current[key] on a dict object
DictDel(o, key) ==
    [o EXCEPT !.ks = RemoveAt(@, KeyPos(o, key)), !.it = RemoveAt(@, KeyPos(o, key))]

\* [None] * n
Nones(n) == [j \in 1..n |-> None]

----------------------------------------------------------------------------
(* Strings *)

Digits == <<"0", "1", "2", "3", "4", "5", "6", "7", "8", "9">>

IsDigit(ch) == ch \in Range(Digits)

DigitVal(ch) == (CHOOSE i \in DOMAIN Digits : Digits[i] = ch) - 1

\* str(n) for n >= 0
RECURSIVE IntToStr(_)
IntToStr(n) ==
    IF n < 10 THEN <<Digits[n + 1]>>
    ELSE IntToStr(n \div 10) \o <<Digits[(n % 10) + 1]>>

\* int(s) for a run of digits
RECURSIVE StrToInt(_)
StrToInt(s) ==
    IF Len(s) = 0 THEN 0
    ELSE 10 * StrToInt(SubSeq(s, 1, Len(s) - 1)) + DigitVal(s[Len(s)])

\* ch in s
Contains(s, ch) == \E i \in DOMAIN s : s[i] = ch

----------------------------------------------------------------------------
(* Path codec: serialise *)

\* key.replace("\\", "\\\\").replace('"', '\\"')
RECURSIVE EscapeDQ(_)
EscapeDQ(key) ==
    IF Len(key) = 0 THEN <<>>
    ELSE (IF key[1] \in {"\\", "\""} THEN <<"\\", key[1]>> ELSE <<key[1]>>)
         \o EscapeDQ(Tail(key))

\* an escape that leaves the key as it is
_escape_nothing(key) == key

_escape_key_for_brackets(key) == EscapeDQ(key)

\* Tokens: a dict key (a str) or a list index (an int)
KeyTok(key) == [t |-> "key", key |-> key, idx |-> 0]
IdxTok(i) == [t |-> "idx", key |-> <<>>, idx |-> i]

_join_path(basePath, token) ==
    IF token.t = "idx"
    THEN basePath \o <<"[">> \o IntToStr(token.idx) \o <<"]">>
    ELSE LET key == token.key
             use_dot == key /= <<>> /\ ~Contains(key, ".") /\ ~Contains(key, "[")
         IN  IF use_dot
             THEN IF basePath = <<>> \/ basePath = <<"$">>
                  THEN (IF basePath = <<"$">> THEN basePath \o <<".">> ELSE <<>>) \o key
                  ELSE basePath \o <<".">> \o key
             ELSE basePath \o <<"[", "\"">> \o _escape_key_for_brackets(key)
                           \o <<"\"", "]">>

----------------------------------------------------------------------------
(* Path codec: parse *)

TokOk(tokens) == [err |-> "", tokens |-> tokens]
TokErr == [err |-> "JsonPathError", tokens |-> <<>>]

\* while j < n and path[j] not in ".[": j += 1
RECURSIVE SimpleKeyEnd(_, _)
SimpleKeyEnd(path, j) ==
    IF j <= Len(path) /\ path[j] \notin {".", "["}
    THEN SimpleKeyEnd(path, j + 1)
    ELSE j

\* returns the key and the position after it
read_simple_key(path, start) ==
    LET KeyUpTo(j) ==
            IF j = start
            THEN [err |-> "JsonPathError", tok |-> KeyTok(<<>>), next |-> start]
            ELSE [err |-> "", tok |-> KeyTok(SubSeq(path, start, j - 1)), next |-> j]
    IN  KeyUpTo(SimpleKeyEnd(path, start))

\* the while loop over a quoted key: buf collects the key, j is the position read
RECURSIVE QuotedKeyLoop(_, _, _, _)
QuotedKeyLoop(path, j, quote, buf) ==
    IF j > Len(path)
    THEN [err |-> "JsonPathError", buf |-> buf, next |-> j]      \* unclosed quoted key
    ELSE IF path[j] = "\\"
    THEN IF j + 1 > Len(path)
         THEN [err |-> "JsonPathError", buf |-> buf, next |-> j] \* trailing backslash
         ELSE \* both branches of the test on esc append esc alone
              QuotedKeyLoop(path, j + 2, quote, Append(buf, path[j + 1]))
    ELSE IF path[j] = quote
    THEN [err |-> "", buf |-> buf, next |-> j + 1]
    ELSE QuotedKeyLoop(path, j + 1, quote, Append(buf, path[j]))

\* while k < n and path[k].isdigit(): k += 1
RECURSIVE DigitsEnd(_, _)
DigitsEnd(path, k) ==
    IF k <= Len(path) /\ IsDigit(path[k]) THEN DigitsEnd(path, k + 1) ELSE k

\* start is the position of "["; returns the token and the position after "]"
read_bracket_key_or_index(path, start) ==
    LET j == start + 1
        bad == [err |-> "JsonPathError", tok |-> KeyTok(<<>>), next |-> start]
        QuotedKey(q) ==
            IF q.err /= "" THEN bad
            ELSE IF q.next > Len(path) \/ path[q.next] /= "]" THEN bad
            ELSE [err |-> "", tok |-> KeyTok(q.buf), next |-> q.next + 1]
        NumericIndex(k) ==
            IF k = j THEN bad
            ELSE IF k > Len(path) \/ path[k] /= "]" THEN bad
            ELSE [err |-> "", tok |-> IdxTok(StrToInt(SubSeq(path, j, k - 1))),
                  next |-> k + 1]
    IN  IF j > Len(path) THEN bad
        ELSE IF path[j] \in {"'", "\""}
        THEN QuotedKey(QuotedKeyLoop(path, j + 1, path[j], <<>>))
        ELSE NumericIndex(DigitsEnd(path, j))

\* the main loop: while i < n
RECURSIVE TokenizeLoop(_, _, _)
TokenizeLoop(path, i, tokens) ==
    IF i > Len(path) THEN TokOk(tokens)
    ELSE IF path[i] = "." THEN TokenizeLoop(path, i + 1, tokens)
    ELSE LET Round(r) ==
                 IF r.err /= "" THEN TokErr
                 ELSE TokenizeLoop(path, r.next, Append(tokens, r.tok))
         IN  Round(IF path[i] = "[" THEN read_bracket_key_or_index(path, i)
                   ELSE read_simple_key(path, i))

_tokenize_json_path(path) ==
    IF Len(path) = 0 THEN TokErr
    ELSE LET i1 == IF path[1] = "$" THEN 2 ELSE 1
             i2 == IF i1 = 2 /\ i1 <= Len(path) /\ path[i1] = "." THEN 3 ELSE i1
         IN  TokenizeLoop(path, i2, <<>>)

----------------------------------------------------------------------------
(* Patcher primitives: set and get *)

\* what a mutating call leaves: the heap, and the exception raised ("" for none)
Done(h) == [h |-> h, err |-> ""]
Raise(h, e) == [h |-> h, err |-> e]

\* the container created for a missing step idx:
\* [] if isinstance(next_tok, int) else {}
SynthesizedDictOnly(tokens, idx) == NewDict

Synthesized(tokens, idx) ==
    IF idx < Len(tokens) /\ tokens[idx + 1].t = "idx" THEN NewList ELSE NewDict

\* an assignment that inserts before the index: current.insert(index, value)
ListInsert(o, i, val) ==
    [o EXCEPT !.it = SubSeq(@, 1, i - 1) \o <<val>> \o SubSeq(@, i, Len(@))]

\* current[index] = value
ListSet(o, i, val) == [o EXCEPT !.it[i] = val]

\* the body of the for loop over tokens, from step idx on; current is the
\* node reached
RECURSIVE SetWalk(_, _, _, _, _, _)
SetWalk(h, current, tokens, idx, value, create_missing) ==
    LET tok == tokens[idx]
        last == idx = Len(tokens)
        fresh == Synthesized(tokens, idx)
        newAddr == Len(h) + 1
    IN  IF tok.t = "key"
        THEN IF ~IsDict(h, current) THEN Raise(h, "TypeError")
             ELSE LET a == current.v
                      o == h[a]
                      pos == KeyPos(o, tok.key)
                  IN  IF last
                      THEN Done([h EXCEPT ![a] = DictSet(o, tok.key, value)])
                      ELSE IF pos = 0 \/ IsNone(o.it[pos])
                      THEN IF ~create_missing THEN Raise(h, "KeyError")
                           ELSE SetWalk(Append([h EXCEPT ![a] =
                                                   DictSet(o, tok.key, Ref(newAddr))],
                                               fresh),
                                        Ref(newAddr), tokens, idx + 1, value,
                                        create_missing)
                      ELSE SetWalk(h, o.it[pos], tokens, idx + 1, value, create_missing)
        ELSE IF tok.idx < 0 THEN Raise(h, "IndexError")
        ELSE IF ~IsList(h, current) THEN Raise(h, "TypeError")
        ELSE LET a == current.v
                 o == h[a]
                 i == tok.idx + 1
             IN  IF tok.idx >= Len(o.it) /\ ~create_missing
                 THEN Raise(h, "IndexError")
                 ELSE LET \* current.extend([None] * (index - len(current) + 1))
                          ext == IF tok.idx >= Len(o.it)
                                 THEN [o EXCEPT !.it = @ \o Nones(tok.idx - Len(o.it) + 1)]
                                 ELSE o
                          h1 == [h EXCEPT ![a] = ext]
                      IN  IF last
                          THEN Done([h EXCEPT ![a] = ListSet(ext, i, value)])
                          ELSE IF IsNone(ext.it[i])
                          THEN IF ~create_missing THEN Raise(h1, "KeyError")
                               ELSE SetWalk(Append([h EXCEPT ![a] =
                                                       [ext EXCEPT !.it[i] = Ref(newAddr)]],
                                                   fresh),
                                            Ref(newAddr), tokens, idx + 1, value,
                                            create_missing)
                          ELSE SetWalk(h1, ext.it[i], tokens, idx + 1, value,
                                       create_missing)

\* set_by_json_path that creates whatever create_missing says
set_by_json_path_creating(h, doc, path, value, create_missing) ==
    LET Walk(tk) ==
            IF tk.err /= "" THEN Raise(h, tk.err)
            ELSE IF tk.tokens = <<>> THEN Raise(h, "JsonPathError")
            ELSE SetWalk(h, doc, tk.tokens, 1, value, TRUE)
    IN  Walk(_tokenize_json_path(path))

\* mutates doc in place; doc itself is what the call returns
set_by_json_path(h, doc, path, value, create_missing) ==
    LET Walk(tk) ==
            IF tk.err /= "" THEN Raise(h, tk.err)
            ELSE IF tk.tokens = <<>> THEN Raise(h, "JsonPathError")
            ELSE SetWalk(h, doc, tk.tokens, 1, value, create_missing)
    IN  Walk(_tokenize_json_path(path))

RECURSIVE GetWalk(_, _, _, _)
GetWalk(h, current, tokens, idx) ==
    IF idx > Len(tokens) THEN [err |-> "", val |-> current]
    ELSE LET tok == tokens[idx]
         IN  IF tok.t = "key"
             THEN IF ~IsDict(h, current) \/ KeyPos(h[current.v], tok.key) = 0
                  THEN [err |-> "KeyError", val |-> None]
                  ELSE GetWalk(h, h[current.v].it[KeyPos(h[current.v], tok.key)],
                               tokens, idx + 1)
             ELSE IF ~IsList(h, current) THEN [err |-> "TypeError", val |-> None]
             ELSE IF tok.idx < 0 \/ tok.idx >= Len(h[current.v].it)
             THEN [err |-> "IndexError", val |-> None]
             ELSE GetWalk(h, h[current.v].it[tok.idx + 1], tokens, idx + 1)

get_by_json_path(h, doc, path) ==
    LET Walk(tk) ==
            IF tk.err /= "" THEN [err |-> tk.err, val |-> None]
            ELSE GetWalk(h, doc, tk.tokens, 1)
    IN  Walk(_tokenize_json_path(path))

----------------------------------------------------------------------------
(* Patcher primitives: delete and pop *)

_delete_in_parent(h, parent, tok, remove_from_list) ==
    IF tok.t = "key"
    THEN IF ~IsDict(h, parent) THEN Raise(h, "TypeError")
         ELSE IF KeyPos(h[parent.v], tok.key) > 0
         THEN Done([h EXCEPT ![parent.v] = DictDel(@, tok.key)])
         ELSE Done(h)
    ELSE IF ~IsList(h, parent) THEN Raise(h, "TypeError")
    ELSE IF 0 <= tok.idx /\ tok.idx < Len(h[parent.v].it)
    THEN IF remove_from_list
         THEN Done([h EXCEPT ![parent.v].it = RemoveAt(@, tok.idx + 1)])
         ELSE Done([h EXCEPT ![parent.v].it[tok.idx + 1] = None])
    ELSE Done(h)

\* _is_empty_container that knows dicts only
_is_empty_dict_only(h, obj) == IsDict(h, obj) /\ Len(h[obj.v].it) = 0

_is_empty_container(h, obj) ==
    (IsDict(h, obj) /\ Len(h[obj.v].it) = 0) \/ (IsList(h, obj) /\ Len(h[obj.v].it) = 0)

\* delete's walk down to the parent of the target: the for loop over
\* tokens[:-1] from step idx on; parents collects (container, token) pairs
RECURSIVE DeleteDescend(_, _, _, _, _)
DeleteDescend(h, current, tokens, idx, parents) ==
    IF idx >= Len(tokens) THEN [err |-> "", current |-> current, parents |-> parents]
    ELSE LET tok == tokens[idx]
             fail(e) == [err |-> e, current |-> current, parents |-> parents]
         IN  IF tok.t = "key"
             THEN IF ~IsDict(h, current) THEN fail("TypeError")
                  ELSE LET o == h[current.v]
                           pos == KeyPos(o, tok.key)
                       IN  IF pos = 0 \/ IsNone(o.it[pos]) THEN fail("KeyError")
                           ELSE DeleteDescend(h, o.it[pos], tokens, idx + 1,
                                    Append(parents, [c |-> current, tok |-> tok]))
             ELSE IF ~IsList(h, current) THEN fail("TypeError")
             ELSE LET o == h[current.v]
                  IN  IF tok.idx < 0 \/ tok.idx >= Len(o.it) \/ IsNone(o.it[tok.idx + 1])
                      THEN fail("IndexError")
                      ELSE DeleteDescend(h, o.it[tok.idx + 1], tokens, idx + 1,
                               Append(parents, [c |-> current, tok |-> tok]))

\* pop's walk down to the parent of the target
RECURSIVE PopDescend(_, _, _, _, _)
PopDescend(h, current, tokens, idx, parents) ==
    IF idx >= Len(tokens) THEN [err |-> "", current |-> current, parents |-> parents]
    ELSE LET tok == tokens[idx]
             fail(e) == [err |-> e, current |-> current, parents |-> parents]
         IN  IF tok.t = "key"
             THEN IF ~IsDict(h, current) \/ KeyPos(h[current.v], tok.key) = 0
                     \/ IsNone(h[current.v].it[KeyPos(h[current.v], tok.key)])
                  THEN fail("KeyError")
                  ELSE PopDescend(h, h[current.v].it[KeyPos(h[current.v], tok.key)],
                           tokens, idx + 1,
                           Append(parents, [c |-> current, tok |-> tok]))
             ELSE IF ~IsList(h, current) \/ tok.idx < 0 \/ tok.idx >= Len(h[current.v].it)
             THEN fail("IndexError")
             ELSE IF IsNone(h[current.v].it[tok.idx + 1]) THEN fail("KeyError")
             ELSE PopDescend(h, h[current.v].it[tok.idx + 1], tokens, idx + 1,
                      Append(parents, [c |-> current, tok |-> tok]))

\* a deletion at the leaf that takes an absent key or index for deleted
DeleteLeafTolerant(h, current, leaf, remove_from_list) ==
    IF leaf.t = "key"
    THEN IF ~IsDict(h, current) THEN Raise(h, "TypeError")
         ELSE IF KeyPos(h[current.v], leaf.key) = 0 THEN Done(h)
         ELSE Done([h EXCEPT ![current.v] = DictDel(@, leaf.key)])
    ELSE IF ~IsList(h, current) THEN Raise(h, "TypeError")
    ELSE IF leaf.idx < 0 \/ leaf.idx >= Len(h[current.v].it) THEN Done(h)
    ELSE IF remove_from_list
    THEN Done([h EXCEPT ![current.v].it = RemoveAt(@, leaf.idx + 1)])
    ELSE Done([h EXCEPT ![current.v].it[leaf.idx + 1] = None])

\* delete's deletion at the leaf
DeleteLeaf(h, current, leaf, remove_from_list) ==
    IF leaf.t = "key"
    THEN IF ~IsDict(h, current) THEN Raise(h, "TypeError")
         ELSE IF KeyPos(h[current.v], leaf.key) = 0 THEN Raise(h, "KeyError")
         ELSE Done([h EXCEPT ![current.v] = DictDel(@, leaf.key)])
    ELSE IF ~IsList(h, current) THEN Raise(h, "TypeError")
    ELSE IF leaf.idx < 0 \/ leaf.idx >= Len(h[current.v].it) THEN Raise(h, "IndexError")
    ELSE IF remove_from_list
    THEN Done([h EXCEPT ![current.v].it = RemoveAt(@, leaf.idx + 1)])
    ELSE Done([h EXCEPT ![current.v].it[leaf.idx + 1] = None])

\* pop's removal at the leaf: removed is the value taken out
PopLeaf(h, current, leaf, remove_from_list) ==
    IF leaf.t = "key"
    THEN IF ~IsDict(h, current) THEN [h |-> h, err |-> "TypeError", removed |-> None]
         ELSE IF KeyPos(h[current.v], leaf.key) = 0
         THEN [h |-> h, err |-> "KeyError", removed |-> None]
         ELSE [h |-> [h EXCEPT ![current.v] = DictDel(@, leaf.key)], err |-> "",
               removed |-> h[current.v].it[KeyPos(h[current.v], leaf.key)]]
    ELSE IF ~IsList(h, current) THEN [h |-> h, err |-> "TypeError", removed |-> None]
    ELSE IF leaf.idx < 0 \/ leaf.idx >= Len(h[current.v].it)
    THEN [h |-> h, err |-> "IndexError", removed |-> None]
    ELSE [h |-> IF remove_from_list
                THEN [h EXCEPT ![current.v].it = RemoveAt(@, leaf.idx + 1)]
                ELSE [h EXCEPT ![current.v].it[leaf.idx + 1] = None],
          err |-> "",
          removed |-> h[current.v].it[leaf.idx + 1]]

\* delete's pruning: for depth in range(len(parents) - 1, -1, -1): parents[depth] is the pair
\* at position depth here (positions count from 1)
RECURSIVE DeletePrune(_, _, _, _, _)
DeletePrune(h, parents, depth, child, remove_from_list) ==
    IF depth < 1 THEN Done(h)
    ELSE IF _is_empty_container(h, child)
    THEN LET r == _delete_in_parent(h, parents[depth].c, parents[depth].tok,
                                    remove_from_list)
         IN  IF r.err /= "" THEN r
             ELSE DeletePrune(r.h, parents, depth - 1, parents[depth].c,
                            remove_from_list)
    ELSE Done(h)

\* pop's pruning, the same loop
RECURSIVE PopPrune(_, _, _, _, _)
PopPrune(h, parents, depth, child, remove_from_list) ==
    IF depth < 1 THEN Done(h)
    ELSE IF _is_empty_container(h, child)
    THEN LET r == _delete_in_parent(h, parents[depth].c, parents[depth].tok,
                                    remove_from_list)
         IN  IF r.err /= "" THEN r
             ELSE PopPrune(r.h, parents, depth - 1, parents[depth].c,
                            remove_from_list)
    ELSE Done(h)

delete_by_json_path(h, doc, path, missing_ok, remove_from_list, prune_empty) ==
    LET \* after the deletion at the leaf: l is what it came to
        AtLeaf(d, l) ==
            IF l.err /= ""
            THEN (IF missing_ok THEN Done(h) ELSE Raise(h, l.err))
            ELSE IF prune_empty
            THEN DeletePrune(l.h, d.parents, Len(d.parents), d.current, remove_from_list)
            ELSE Done(l.h)
        \* after the walk to the parent: d is what it came to
        AtParent(tokens, d) ==
            IF d.err /= ""
            THEN (IF missing_ok THEN Done(h) ELSE Raise(h, d.err))
            ELSE AtLeaf(d, DeleteLeaf(h, d.current, tokens[Len(tokens)],
                                      remove_from_list))
        Walk(tk) ==
            IF tk.err /= "" THEN Raise(h, tk.err)
            ELSE IF tk.tokens = <<>> THEN Raise(h, "JsonPathError")
            ELSE AtParent(tk.tokens, DeleteDescend(h, doc, tk.tokens, 1, <<>>))
    IN  Walk(_tokenize_json_path(path))

\* ret is the value returned (None when nothing was removed)
pop_by_json_path(h, doc, path, missing_ok, remove_from_list, prune_empty) ==
    LET out(r, ret) == [h |-> r.h, err |-> r.err, ret |-> ret]
        Pruned(l, r) == out(r, IF r.err = "" THEN l.removed ELSE None)
        \* after the pop at the leaf: l is what it came to
        AtLeaf(d, l) ==
            IF l.err /= ""
            THEN out(IF missing_ok THEN Done(h) ELSE Raise(h, l.err), None)
            ELSE IF prune_empty
            THEN Pruned(l, PopPrune(l.h, d.parents, Len(d.parents), d.current,
                                    remove_from_list))
            ELSE out(Done(l.h), l.removed)
        \* after the walk to the parent: d is what it came to
        AtParent(tokens, d) ==
            IF d.err /= ""
            THEN out(IF missing_ok THEN Done(h) ELSE Raise(h, d.err), None)
            ELSE AtLeaf(d, PopLeaf(h, d.current, tokens[Len(tokens)], remove_from_list))
        Walk(tk) ==
            IF tk.err /= "" THEN out(Raise(h, tk.err), None)
            ELSE IF tk.tokens = <<>> THEN out(Raise(h, "JsonPathError"), None)
            ELSE AtParent(tk.tokens, PopDescend(h, doc, tk.tokens, 1, <<>>))
    IN  Walk(_tokenize_json_path(path))

----------------------------------------------------------------------------
(* Tree walker *)

\* max_depth=None
NoMaxDepth == -1

\* the characters of the model in code point order, for sorted(key=str)
CodeOrder ==
    <<"\"", "$", "'", ".", "0", "1", "2", "3", "4", "5", "6", "7", "8", "9",
      "[", "\\", "]", "a", "b", "c", "d">>

Code(ch) == CHOOSE i \in DOMAIN CodeOrder : CodeOrder[i] = ch

\* s < t on str
RECURSIVE StrLess(_, _)
StrLess(s, t) ==
    IF Len(t) = 0 THEN FALSE
    ELSE IF Len(s) = 0 THEN TRUE
    ELSE IF s[1] = t[1] THEN StrLess(Tail(s), Tail(t))
    ELSE Code(s[1]) < Code(t[1])

\* the positions of a container's items in the order the for loop takes them:
\* insertion order, or for a dict under sort_keys the order of sorted(items)
IterOrder(o, sort_keys) ==
    IF o.k = "dict" /\ sort_keys
    THEN [r \in 1..Len(o.ks) |->
            CHOOSE i \in 1..Len(o.ks) :
                Cardinality({j \in 1..Len(o.ks) : StrLess(o.ks[j], o.ks[i])}) = r - 1]
    ELSE [r \in 1..Len(o.it) |-> r]

\* yield_item with include_values=True
yield_item(path, value) == [p |-> path, v |-> value]

\* path or ("$" if include_root else "")
PathOrRoot(path, opts) ==
    IF path /= <<>> THEN path ELSE IF opts.include_root THEN <<"$">> ELSE <<>>

\* seen_ids when the rec of a child is exhausted, as a set kept for the path
\* from the root only would be: what the child added is taken out again
seen_ids_of_path(before, after) == before

\* seen_ids when the rec of a child is exhausted: the one set of the call,
\* which every rec adds to and none removes from
seen_ids_of_call(before, after) == after

\* rec(current, path, depth) with the state of seen_ids it starts from: out is
\* what it yields, seen is seen_ids when it is exhausted, entered the ids of
\* the containers in the order seen_ids.add was reached for them.  RecItems is
\* the for loop of the dict and of the list branch from its n-th round on.
RECURSIVE rec(_, _, _, _, _, _), RecItems(_, _, _, _, _, _, _, _)
rec(h, current, path, depth, seen, opts) ==
    IF opts.max_depth /= NoMaxDepth /\ depth > opts.max_depth
    THEN [out |-> <<>>, seen |-> seen, entered |-> <<>>]
    ELSE IF IsRef(current)
    THEN IF current.v \in seen THEN [out |-> <<>>, seen |-> seen, entered |-> <<>>]
         ELSE LET o == h[current.v]
                  seen1 == seen \cup {current.v}
                  self == yield_item(PathOrRoot(path, opts), current)
              IN  IF Len(o.it) = 0 /\ opts.include_containers /\ opts.leaves_only
                  THEN [out |-> <<self>>, seen |-> seen1, entered |-> <<current.v>>]
                  ELSE LET r == RecItems(h, o, IterOrder(o, opts.sort_keys), 1, path,
                                         depth, seen1, opts)
                       IN  [out |-> (IF opts.include_containers /\ ~opts.leaves_only
                                     THEN <<self>> ELSE <<>>) \o r.out,
                            seen |-> r.seen,
                            entered |-> <<current.v>> \o r.entered]
    ELSE [out |-> <<yield_item(IF path /= <<>> \/ opts.include_root
                               THEN (IF path /= <<>> THEN path ELSE <<"$">>)
                               ELSE <<>>,
                               current)>>,
          seen |-> seen, entered |-> <<>>]

RecItems(h, o, order, n, path, depth, seen, opts) ==
    IF n > Len(order) THEN [out |-> <<>>, seen |-> seen, entered |-> <<>>]
    ELSE LET i == order[n]
             v == o.it[i]
             child_path == _join_path(PathOrRoot(path, opts),
                                      IF o.k = "dict" THEN KeyTok(o.ks[i])
                                      ELSE IdxTok(i - 1))
             here == IF IsRef(v)
                     THEN LET r == rec(h, v, child_path, depth + 1, seen, opts)
                          IN  [out |-> (IF opts.include_containers /\ ~opts.leaves_only
                                        THEN <<yield_item(child_path, v)>> ELSE <<>>)
                                       \o r.out,
                               seen |-> seen_ids_of_call(seen, r.seen),
                               entered |-> r.entered]
                     ELSE [out |-> <<yield_item(child_path, v)>>, seen |-> seen,
                           entered |-> <<>>]
             more == RecItems(h, o, order, n + 1, path, depth, here.seen, opts)
         IN  [out |-> here.out \o more.out, seen |-> more.seen,
              entered |-> here.entered \o more.entered]

\* the (path, value) pairs in the order they are yielded; seen_ids starts empty
iter_json_paths(h, obj, opts) ==
    (IF opts.include_root /\ opts.include_containers /\ ~opts.leaves_only
     THEN <<yield_item(<<"$">>, obj)>> ELSE <<>>)
    \o rec(h, obj, IF opts.include_root THEN <<"$">> ELSE <<>>, 0, {}, opts).out

list_json_paths(h, obj, opts) ==
    LET Paths(pairs) == [i \in 1..Len(pairs) |-> pairs[i].p]
    IN  Paths(iter_json_paths(h, obj, opts))

paths_with_values(h, obj, opts, exclude_none) ==
    LET NotNone(pv) == ~IsNone(pv.v)
        Kept(pairs) == IF exclude_none THEN SelectSeq(pairs, NotNone) ELSE pairs
    IN  Kept(iter_json_paths(h, obj, opts))

\* {p: v for p, v in pairs}: the last pair of a path is the one kept
path_value_map(h, obj, opts, exclude_none) ==
    LET lastOf(pairs, p) == CHOOSE i \in 1..Len(pairs) :
                               /\ pairs[i].p = p
                               /\ \A j \in (i + 1)..Len(pairs) : pairs[j].p /= p
        AsDict(pairs) ==
            [p \in {pairs[i].p : i \in 1..Len(pairs)} |-> pairs[lastOf(pairs, p)].v]
    IN  AsDict(paths_with_values(h, obj, opts, exclude_none))

----------------------------------------------------------------------------
(* Differ *)

Delta(operation, path, new_value, old_value) ==
    [operation |-> operation, path |-> path, new_value |-> new_value,
     old_value |-> old_value]

\* the sequences that list every element of the finite set S once: the orders
\* in which a for loop may iterate a Python set
Orderings(S) ==
    {s \in [1..Cardinality(S) -> S] : \A i, j \in DOMAIN s : i /= j => s[i] /= s[j]}

\* the projections with the containers included
new_path_map_containers(h, new) ==
    path_value_map(h, new,
        [include_root |-> TRUE, leaves_only |-> FALSE, include_containers |-> TRUE,
         sort_keys |-> FALSE, max_depth |-> NoMaxDepth], FALSE)

old_path_map_containers(h, old) ==
    path_value_map(h, old,
        [include_root |-> TRUE, leaves_only |-> FALSE, include_containers |-> TRUE,
         sort_keys |-> FALSE, max_depth |-> NoMaxDepth], FALSE)

new_path_map(h, new) ==
    path_value_map(h, new,
        [include_root |-> TRUE, leaves_only |-> TRUE, include_containers |-> FALSE,
         sort_keys |-> FALSE, max_depth |-> NoMaxDepth], FALSE)

old_path_map(h, old) ==
    path_value_map(h, old,
        [include_root |-> TRUE, leaves_only |-> FALSE, include_containers |-> FALSE,
         sort_keys |-> FALSE, max_depth |-> NoMaxDepth], FALSE)

\* the Deltas of the first, the second and the third loop of diff, given the
\* two path maps
DiffDeleted(new_map, old_map) ==
    {Delta("deleted", key, None, old_map[key]) :
        key \in DOMAIN old_map \ DOMAIN new_map}

DiffAdded(new_map, old_map) ==
    {Delta("added", key, new_map[key], None) :
        key \in DOMAIN new_map \ DOMAIN old_map}

\* a third loop without the test on the values
DiffModifiedAllShared(new_map, old_map) ==
    {Delta("modified", key, new_map[key], old_map[key]) :
        key \in DOMAIN new_map \cap DOMAIN old_map}

DiffModified(new_map, old_map) ==
    {Delta("modified", key, new_map[key], old_map[key]) :
        key \in {x \in DOMAIN new_map \cap DOMAIN old_map : old_map[x] /= new_map[x]}}

\* the lists diff(new, old) may return: each loop iterates a set, in an order
\* the set decides
diff(h, new, old) ==
    LET Loops(new_map, old_map) ==
            {d \o a \o m : d \in Orderings(DiffDeleted(new_map, old_map)),
                           a \in Orderings(DiffAdded(new_map, old_map)),
                           m \in Orderings(DiffModified(new_map, old_map))}
    IN  Loops(new_path_map(h, new), old_path_map(h, old))

----------------------------------------------------------------------------
(* Patcher *)

\* no copy at all: the value itself
NoCopy(h, val, memo) == [h |-> h, val |-> val, memo |-> memo]

\* copy.deepcopy(val): memo maps the address of each object already copied to
\* the address of its copy; CopyItems copies the items of one object in turn
RECURSIVE deepcopy(_, _, _), CopyItems(_, _, _, _)
deepcopy(h, val, memo) ==
    IF ~IsRef(val) THEN [h |-> h, val |-> val, memo |-> memo]
    ELSE IF val.v \in DOMAIN memo THEN [h |-> h, val |-> Ref(memo[val.v]), memo |-> memo]
    ELSE LET n == Len(h) + 1
             o == h[val.v]
             r == CopyItems(Append(h, [o EXCEPT !.it = <<>>]), o.it, 1,
                            [a \in DOMAIN memo \cup {val.v} |->
                                IF a = val.v THEN n ELSE memo[a]])
         IN  [h |-> [r.h EXCEPT ![n].it = r.vals], val |-> Ref(n), memo |-> r.memo]

CopyItems(h, items, i, memo) ==
    IF i > Len(items) THEN [h |-> h, vals |-> <<>>, memo |-> memo]
    ELSE LET c == deepcopy(h, items[i], memo)
             more == CopyItems(c.h, items, i + 1, c.memo)
         IN  [h |-> more.h, vals |-> <<c.val>> \o more.vals, memo |-> more.memo]

\* the for loop of patch from its i-th operation on
RECURSIVE PatchLoop(_, _, _, _)
PatchLoop(h, output, operations, i) ==
    IF i > Len(operations) THEN Done(h)
    ELSE LET op == operations[i]
             Applied(r) ==
                 IF r.err /= "" THEN r ELSE PatchLoop(r.h, output, operations, i + 1)
         IN  Applied(IF op.operation = "deleted"
                     THEN delete_by_json_path(h, output, op.path, FALSE, TRUE, TRUE)
                     ELSE set_by_json_path(h, output, op.path, op.new_value, TRUE))

\* out is the document returned, when err = ""
patch(h, base_, operations) ==
    LET Returned(output, r) == [h |-> r.h, err |-> r.err, out |-> output]
        Patched(c) == Returned(c.val, PatchLoop(c.h, c.val, operations, 1))
    IN  Patched(deepcopy(h, base_, <<>>))

----------------------------------------------------------------------------
(* Documents as literals: the trees the callers build their documents from *)

Leaf(val) == [k |-> val.k, v |-> val.v, ks |-> <<>>, it |-> <<>>]
ListT(items) == [k |-> "list", v |-> 0, ks |-> <<>>, it |-> items]
DictT(keys, items) == [k |-> "dict", v |-> 0, ks |-> keys, it |-> items]

IsContainerT(t) == t.k \in {"dict", "list"}

\* the scalars and the keys documents are built from; the second key needs
\* the bracket form
Scalars == {None, Num(1), Num(2)}
Keys == << <<"a">>, <<"a", ".", "b">> >>

\* the key sequences of a dict literal with n entries, in the order of Keys
KeySeqs(n) ==
    {[i \in 1..n |-> Keys[f[i]]] :
        f \in {g \in [1..n -> 1..Len(Keys)] : \A i, j \in 1..n : i < j => g[i] < g[j]}}

\* the trees of exactly n nodes over the scalars S, and the sequences of such
\* trees of n nodes in all
RECURSIVE TreesOf(_, _), ForestsOf(_, _)
TreesOf(S, n) ==
    IF n < 1 THEN {}
    ELSE (IF n = 1 THEN {Leaf(s) : s \in S} ELSE {})
         \cup {ListT(f) : f \in ForestsOf(S, n - 1)}
         \cup UNION {{DictT(ks, f) : ks \in KeySeqs(Len(f))} : f \in ForestsOf(S, n - 1)}

ForestsOf(S, m) ==
    IF m = 0 THEN {<<>>}
    ELSE UNION {{<<t>> \o f : t \in TreesOf(S, j), f \in ForestsOf(S, m - j)} : j \in 1..m}

TreesUpTo(S, n) == UNION {TreesOf(S, j) : j \in 1..n}

\* the number of nodes of a tree
RECURSIVE Nodes(_)
Nodes(t) ==
    LET RECURSIVE Sum(_)
        Sum(i) == IF i > Len(t.it) THEN 0 ELSE Nodes(t.it[i]) + Sum(i + 1)
    IN  1 + Sum(1)

\* building a literal: the children first, then the container
RECURSIVE Alloc(_, _), AllocItems(_, _, _)
Alloc(h, t) ==
    IF ~IsContainerT(t) THEN [h |-> h, val |-> [k |-> t.k, v |-> t.v]]
    ELSE LET r == AllocItems(h, t.it, 1)
         IN  [h |-> Append(r.h, [k |-> t.k, ks |-> t.ks, it |-> r.vals]),
              val |-> Ref(Len(r.h) + 1)]

AllocItems(h, items, i) ==
    IF i > Len(items) THEN [h |-> h, vals |-> <<>>]
    ELSE LET c == Alloc(h, items[i])
             more == AllocItems(c.h, items, i + 1)
         IN  [h |-> more.h, vals |-> <<c.val>> \o more.vals]

\* the tree a value of a tree-shaped heap stands for
RECURSIVE Value(_, _)
Value(h, val) ==
    IF ~IsRef(val) THEN Leaf(val)
    ELSE [k |-> h[val.v].k, v |-> 0, ks |-> h[val.v].ks,
          it |-> [i \in 1..Len(h[val.v].it) |-> Value(h, h[val.v].it[i])]]

\* t == u in Python: dicts compare as mappings, whatever the insertion order
RECURSIVE TreeEq(_, _)
TreeEq(t, u) ==
    /\ t.k = u.k
    /\ t.v = u.v
    /\ Len(t.it) = Len(u.it)
    /\ IF t.k = "dict"
       THEN /\ Range(t.ks) = Range(u.ks)
            /\ \A i \in 1..Len(t.ks) : TreeEq(t.it[i], u.it[KeyPos(u, t.ks[i])])
       ELSE \A i \in 1..Len(t.it) : TreeEq(t.it[i], u.it[i])

\* the addresses reachable from a value
RECURSIVE Reach(_, _)
Reach(h, val) ==
    IF ~IsRef(val) THEN {}
    ELSE {val.v} \cup UNION {Reach(h, h[val.v].it[i]) : i \in 1..Len(h[val.v].it)}

----------------------------------------------------------------------------
(* Specification of diff and patch: a caller builds two documents, diffs    *)
(* them, and patches the old one with the edit list, in the order diff      *)
(* returned it or in another order of its choosing                          *)

Docs == TreesUpTo(Scalars, MaxNodes)

NoRes == [op |-> "none"]

Init ==
    \E a, b \in Docs :
        LET ra == Alloc(<<>>, a)
            rb == Alloc(ra.h, b)
        IN  /\ Nodes(a) + Nodes(b) <= MaxPairNodes
            /\ heap = rb.h
            /\ base = ra.val
            /\ target = rb.val
            /\ lit = [a |-> a, b |-> b]
            /\ edits = <<>>
            /\ res = NoRes
            /\ pc = "start"

\* edits = diff(new=target, old=base)
DoDiff ==
    /\ pc = "start"
    /\ \E e \in diff(heap, target, base) :
        /\ edits' = e
        /\ res' = [op |-> "diff"]
    /\ pc' = "diffed"
    /\ UNCHANGED <<heap, base, target, lit>>

\* edits = diff(new=base, old=base)
DoDiffSelf ==
    /\ pc = "start"
    /\ \E e \in diff(heap, base, base) :
        /\ edits' = e
        /\ res' = [op |-> "diffself"]
    /\ pc' = "selfdiffed"
    /\ UNCHANGED <<heap, base, target, lit>>

\* patch(base, operations), operations being the edits in some order
DoPatch ==
    /\ pc = "diffed"
    /\ \E operations \in Orderings(Range(edits)) :
        \E r \in {patch(heap, base, operations)} :
            /\ heap' = r.h
            /\ res' = [op |-> "patch", operations |-> operations, err |-> r.err,
                       out |-> r.out]
    /\ pc' = "patched"
    /\ UNCHANGED <<base, target, edits, lit>>

Next == DoDiff \/ DoDiffSelf \/ DoPatch

Spec == Init /\ [][Next]_vars

----------------------------------------------------------------------------
(* Specifications of the primitives: a caller builds a document and calls   *)
(* set or get (SpecSet), delete or pop (SpecDel) on it with a path          *)

PrimDocs == TreesUpTo({None, Num(1)}, MaxPrimNodes)

\* the tokens the paths are made of, and the values set
PrimTokens == {KeyTok(Keys[1]), KeyTok(Keys[2]), IdxTok(0), IdxTok(1)}
SetValues == {None, Num(2)}

\* "$" joined with the tokens in turn
RECURSIVE JoinAll(_, _)
JoinAll(basePath, tokens) ==
    IF Len(tokens) = 0 THEN basePath
    ELSE JoinAll(_join_path(basePath, Head(tokens)), Tail(tokens))

TokenSeqs == UNION {[1..n -> PrimTokens] : n \in 1..MaxPathLen}

\* the paths of the calls: every token sequence, the root, and an unclosed bracket
PrimPaths == {JoinAll(<<"$">>, ts) : ts \in TokenSeqs} \cup {<<"$">>, <<"$", "[">>}

InitPrim ==
    \E a \in PrimDocs :
        LET ra == Alloc(<<>>, a)
        IN  /\ heap = ra.h
            /\ base = ra.val
            /\ target = None
            /\ lit = [a |-> a, b |-> Leaf(None)]
            /\ edits = <<>>
            /\ res = NoRes
            /\ pc = "prim"

DoSet ==
    /\ pc = "prim"
    /\ \E path \in PrimPaths, value \in SetValues, create_missing \in BOOLEAN :
        \E r \in {set_by_json_path(heap, base, path, value, create_missing)} :
            /\ heap' = r.h
            /\ res' = [op |-> "set", path |-> path, value |-> value,
                       create_missing |-> create_missing, err |-> r.err]
    /\ pc' = "called"
    /\ UNCHANGED <<base, target, edits, lit>>

DoGet ==
    /\ pc = "prim"
    /\ \E path \in PrimPaths :
        \E r \in {get_by_json_path(heap, base, path)} :
            res' = [op |-> "get", path |-> path, err |-> r.err, ret |-> r.val]
    /\ pc' = "called"
    /\ UNCHANGED <<heap, base, target, edits, lit>>

DoDelete ==
    /\ pc = "prim"
    /\ \E path \in PrimPaths, missing_ok, remove_from_list, prune_empty \in BOOLEAN :
        \E r \in {delete_by_json_path(heap, base, path, missing_ok, remove_from_list,
                                     prune_empty)} :
            /\ heap' = r.h
            /\ res' = [op |-> "delete", path |-> path, missing_ok |-> missing_ok,
                       remove_from_list |-> remove_from_list,
                       prune_empty |-> prune_empty, err |-> r.err, ret |-> None]
    /\ pc' = "called"
    /\ UNCHANGED <<base, target, edits, lit>>

DoPop ==
    /\ pc = "prim"
    /\ \E path \in PrimPaths, missing_ok, remove_from_list, prune_empty \in BOOLEAN :
        \E r \in {pop_by_json_path(heap, base, path, missing_ok, remove_from_list,
                                  prune_empty)} :
            /\ heap' = r.h
            /\ res' = [op |-> "pop", path |-> path, missing_ok |-> missing_ok,
                       remove_from_list |-> remove_from_list,
                       prune_empty |-> prune_empty, err |-> r.err, ret |-> r.ret]
    /\ pc' = "called"
    /\ UNCHANGED <<base, target, edits, lit>>

NextSet == DoSet \/ DoGet

SpecSet == InitPrim /\ [][NextSet]_vars

NextDel == DoDelete \/ DoPop

SpecDel == InitPrim /\ [][NextDel]_vars

----------------------------------------------------------------------------
(* What the documents are, read off the literals                            *)

\* the token that addresses the i-th item of the container t
TokenAt(t, i) == IF t.k = "dict" THEN KeyTok(t.ks[i]) ELSE IdxTok(i - 1)

\* the leaves of a tree: the token path and the value of every scalar node
RECURSIVE LeavesOf(_)
LeavesOf(t) ==
    IF ~IsContainerT(t) THEN {[tokens |-> <<>>, val |-> [k |-> t.k, v |-> t.v]]}
    ELSE UNION {{[tokens |-> <<TokenAt(t, i)>> \o l.tokens, val |-> l.val] :
                    l \in LeavesOf(t.it[i])} : i \in 1..Len(t.it)}

LeafPathsOf(t) == {l.tokens : l \in LeavesOf(t)}

LeafAt(t, tokens) == (CHOOSE l \in LeavesOf(t) : l.tokens = tokens).val

\* the edit as a record addressed by tokens: the path parsed as patch parses it
Addressed(e) ==
    [operation |-> e.operation, tokens |-> _tokenize_json_path(e.path).tokens,
     new_value |-> e.new_value, old_value |-> e.old_value]

\* what a call of patch came to: whether it raised, and the document returned
SameOutcome(r, q) ==
    /\ (r.err = "") <=> (q.err = "")
    /\ r.err = "" => TreeEq(Value(r.h, r.out), Value(q.h, q.out))

----------------------------------------------------------------------------
(* Claims on diff and patch, under Spec *)

\* C1: round-trip law: patch(A, diff(new=B, old=A)), with the Deltas in the
\* order diff produced them, completes without error and returns a document
\* equal to B.  Stated here for the documents diff and patch are annotated
\* for, those whose root is a map; A and B range over all pairs, so both
\* directions are covered.
C1_RoundTrip ==
    (/\ pc = "patched"
     /\ res.operations = edits
     /\ lit.a.k = "dict"
     /\ lit.b.k = "dict")
        => /\ res.err = ""
           /\ TreeEq(Value(heap, res.out), lit.b)

\* C2: diff(new=D, old=D) returns the empty edit list, D being one object
\* handed in twice or two equal documents.
C2_DiffSelfEmpty ==
    /\ pc = "selfdiffed" => edits = <<>>
    /\ (pc = "diffed" /\ TreeEq(lit.a, lit.b)) => edits = <<>>

C2_Witness ==
    /\ pc = "selfdiffed"
    /\ lit.a.k = "dict"
    /\ Len(lit.a.it) = 2

\* C3: patch never mutates the base it is given: when it has returned, or
\* raised part-way through the edit list, base is what it was built as, and
\* the output shares no container with it.
C3_PatchKeepsBase ==
    pc = "patched"
        => /\ Value(heap, base) = lit.a
           /\ Reach(heap, res.out) \cap Reach(heap, base) = {}

C3_Witness ==
    /\ pc = "patched"
    /\ res.err = ""
    /\ IsRef(base)
    /\ Len(edits) >= 2
    /\ ~TreeEq(Value(heap, res.out), lit.a)

\* C4: the edit list is an unordered set for patch: every order of the Deltas
\* of diff(new=B, old=A) gives the outcome of the order applied: the same
\* document, or an error in both.  Stated for map-rooted documents, as C1.
C4_OrderFree ==
    (/\ pc = "patched"
     /\ lit.a.k = "dict"
     /\ lit.b.k = "dict")
        => \A q \in Orderings(Range(edits)) :
              SameOutcome([h |-> heap, err |-> res.err, out |-> res.out],
                          patch(heap, base, q))

\* C5: diff(new, old) holds exactly one Deleted Delta (old value, no new
\* value) per leaf path of old that is no leaf path of new, one Added Delta
\* (new value, no old value) per leaf path of new that is no leaf path of old,
\* one Modified Delta (both values) per leaf path of both with unequal values,
\* and nothing else: no path twice, no Delta on a container.
C5_Expected ==
    {[operation |-> "deleted", tokens |-> p, new_value |-> None,
      old_value |-> LeafAt(lit.a, p)] : p \in LeafPathsOf(lit.a) \ LeafPathsOf(lit.b)}
    \cup
    {[operation |-> "added", tokens |-> p, new_value |-> LeafAt(lit.b, p),
      old_value |-> None] : p \in LeafPathsOf(lit.b) \ LeafPathsOf(lit.a)}
    \cup
    {[operation |-> "modified", tokens |-> p, new_value |-> LeafAt(lit.b, p),
      old_value |-> LeafAt(lit.a, p)] :
        p \in {x \in LeafPathsOf(lit.a) \cap LeafPathsOf(lit.b) :
                  LeafAt(lit.a, x) /= LeafAt(lit.b, x)}}

C5_DiffExact ==
    pc = "diffed"
        => /\ \A e \in Range(edits) : _tokenize_json_path(e.path).err = ""
           /\ {Addressed(e) : e \in Range(edits)} = C5_Expected
           /\ Len(edits) = Cardinality(C5_Expected)
           /\ \A i, j \in 1..Len(edits) : i /= j => edits[i].path /= edits[j].path

C5_Witness ==
    /\ pc = "diffed"
    /\ \E e \in Range(edits) : e.operation = "deleted"
    /\ \E e \in Range(edits) : e.operation = "modified" /\ Len(e.path) > 3

\* C6, as stated: no Delta returned by diff has the root path "$", whatever
\* the roots are, scalar and empty-container roots included.
C6_NoRootDelta ==
    pc \in {"diffed", "selfdiffed"} => \A e \in Range(edits) : e.path /= <<"$">>

\* C6, amended: when the roots of new and old are both maps or sequences
\* (empty ones included), no Delta returned by diff has the root path "$".
C6_NoRootDeltaForContainers ==
    (/\ pc \in {"diffed", "selfdiffed"}
     /\ IsContainerT(lit.a)
     /\ pc = "diffed" => IsContainerT(lit.b))
        => \A e \in Range(edits) : e.path /= <<"$">>

C6_Witness ==
    /\ pc = "diffed"
    /\ lit.a.k = "list" /\ Len(lit.a.it) = 0
    /\ lit.b.k = "dict" /\ Len(lit.b.it) = 2
    /\ Len(edits) = 2

----------------------------------------------------------------------------
(* What a path addresses in a document, read off the literal *)

\* the heap as the caller built it
PreHeap == Alloc(<<>>, lit.a).h

\* the tokens of the path of the call
CallTokens == _tokenize_json_path(res.path).tokens

\* a call with a well-formed path other than the root
ValidCall == _tokenize_json_path(res.path).err = "" /\ CallTokens /= <<>>

\* the token suits the node: a key for a map, an index for a sequence
KindFits(t, tok) ==
    (tok.t = "key" /\ t.k = "dict") \/ (tok.t = "idx" /\ t.k = "list")

\* the position in t of the item the token addresses, 0 when there is none
TStep(t, tok) ==
    IF tok.t = "key"
    THEN (IF t.k = "dict" THEN KeyPos(t, tok.key) ELSE 0)
    ELSE (IF t.k = "list" /\ tok.idx < Len(t.it) THEN tok.idx + 1 ELSE 0)

\* the path resolves: every step finds its key or index in a node of its kind
RECURSIVE Resolves(_, _)
Resolves(t, toks) ==
    \/ toks = <<>>
    \/ /\ TStep(t, Head(toks)) > 0
       /\ Resolves(t.it[TStep(t, Head(toks))], Tail(toks))

\* the node a resolving path addresses
RECURSIVE TreeGet(_, _)
TreeGet(t, toks) ==
    IF toks = <<>> THEN t ELSE TreeGet(t.it[TStep(t, Head(toks))], Tail(toks))

\* t without its item at pos: a map loses the key; a sequence loses the
\* element when remove_from_list, and keeps a null in its place otherwise
Without(t, pos, remove_from_list) ==
    IF t.k = "dict" THEN [t EXCEPT !.ks = RemoveAt(@, pos), !.it = RemoveAt(@, pos)]
    ELSE IF remove_from_list THEN [t EXCEPT !.it = RemoveAt(@, pos)]
    ELSE [t EXCEPT !.it[pos] = Leaf(None)]

\* t after the node at a resolving path is deleted and every container the
\* deletion leaves empty is taken out of its parent in turn; t itself stays
RECURSIVE RefPrune(_, _, _)
RefPrune(t, toks, remove_from_list) ==
    LET pos == TStep(t, Head(toks))
    IN  IF Len(toks) = 1 THEN Without(t, pos, remove_from_list)
        ELSE LET c == RefPrune(t.it[pos], Tail(toks), remove_from_list)
             IN  IF Len(c.it) = 0
                 THEN Without(t, pos, remove_from_list)
                 ELSE [t EXCEPT !.it[pos] = c]

\* the empty container a missing step before the token next gets
EmptyFor(next) == IF next.t = "idx" THEN ListT(<<>>) ELSE DictT(<<>>, <<>>)

\* t after value is set at the path with missing intermediates synthesized:
\* ok is FALSE when a step meets a node of the wrong kind
RECURSIVE RefSet(_, _, _)
RefSet(t, toks, value) ==
    LET tok == Head(toks)
        padded == IF tok.t = "idx" /\ t.k = "list" /\ tok.idx >= Len(t.it)
                  THEN [t EXCEPT !.it = @ \o [i \in 1..(tok.idx - Len(t.it) + 1) |->
                                                 Leaf(None)]]
                  ELSE t
        pos == TStep(padded, tok)
        Put(c) == IF pos = 0
                  THEN [padded EXCEPT !.ks = Append(@, tok.key), !.it = Append(@, c)]
                  ELSE [padded EXCEPT !.it[pos] = c]
    IN  IF ~KindFits(t, tok) THEN [ok |-> FALSE, t |-> t]
        ELSE IF Len(toks) = 1 THEN [ok |-> TRUE, t |-> Put(Leaf(value))]
        ELSE LET old == IF pos = 0 \/ padded.it[pos] = Leaf(None)
                        THEN EmptyFor(toks[2])
                        ELSE padded.it[pos]
                 r == RefSet(old, Tail(toks), value)
             IN  [ok |-> r.ok, t |-> Put(r.t)]

\* an intermediate step of the path is absent: the steps before it resolve,
\* and it meets a missing key, an index beyond the length, or a null
RECURSIVE AbsentIntermediate(_, _)
AbsentIntermediate(t, toks) ==
    /\ Len(toks) >= 2
    /\ KindFits(t, Head(toks))
    /\ LET pos == TStep(t, Head(toks))
       IN  \/ pos = 0
           \/ t.it[pos] = Leaf(None)
           \/ AbsentIntermediate(t.it[pos], Tail(toks))

----------------------------------------------------------------------------
(* Claims on delete and pop, under SpecDel *)

C8_MissingOkNoOp ==
    (/\ pc = "called"
     /\ res.op \in {"delete", "pop"}
     /\ res.missing_ok
     /\ ValidCall
     /\ ~Resolves(lit.a, CallTokens))
        => /\ res.err = ""
           /\ heap = PreHeap
           /\ res.ret = None

C8_Witness ==
    /\ pc = "called"
    /\ res.op = "pop"
    /\ res.missing_ok
    /\ res.prune_empty
    /\ ValidCall
    /\ Len(CallTokens) = 2
    /\ Resolves(lit.a, SubSeq(CallTokens, 1, 1))
    /\ IsContainerT(TreeGet(lit.a, SubSeq(CallTokens, 1, 1)))
    /\ Len(TreeGet(lit.a, SubSeq(CallTokens, 1, 1)).it) = 0
    /\ ~Resolves(lit.a, CallTokens)
    /\ res.err = ""

----------------------------------------------------------------------------
(* Claims on set, under SpecSet *)

\* C9: set_by_json_path with create_missing=True, on a path no step of which
\* meets a node of the wrong kind: an absent (or null) intermediate is created
\* as an empty map, or as an empty sequence when the next token is an index; a
\* sequence indexed at or beyond its length is padded with nulls up to and
\* including the index; the call raises nothing, and get_by_json_path on the
\* same path then returns the value set.
C9_SetSynthesizes ==
    (/\ pc = "called"
     /\ res.op = "set"
     /\ res.create_missing
     /\ ValidCall
     /\ RefSet(lit.a, CallTokens, res.value).ok)
        => /\ res.err = ""
           /\ Value(heap, base) = RefSet(lit.a, CallTokens, res.value).t
           /\ get_by_json_path(heap, base, res.path) = [err |-> "", val |-> res.value]

C9_Witness ==
    /\ pc = "called"
    /\ res.op = "set"
    /\ res.create_missing
    /\ res.err = ""
    /\ lit.a = DictT(<<>>, <<>>)
    /\ CallTokens = <<KeyTok(Keys[1]), IdxTok(1), KeyTok(Keys[2])>>
    /\ Value(heap, base) =
           DictT(<<Keys[1]>>,
                 <<ListT(<<Leaf(None), DictT(<<Keys[2]>>, <<Leaf(res.value)>>)>>)>>)

\* C10: set_by_json_path with create_missing=False raises whenever an
\* intermediate step of the path is absent (missing key, index beyond the
\* sequence's length, or a null placeholder), synthesizes nothing, and leaves
\* the document unchanged.
C10_SetNoCreateRaises ==
    (/\ pc = "called"
     /\ res.op = "set"
     /\ ~res.create_missing
     /\ ValidCall
     /\ AbsentIntermediate(lit.a, CallTokens))
        => /\ res.err \in {"KeyError", "IndexError"}
           /\ heap = PreHeap

C10_Witness ==
    /\ pc = "called"
    /\ res.op = "set"
    /\ ~res.create_missing
    /\ ValidCall
    /\ Len(CallTokens) = 3
    /\ Resolves(lit.a, SubSeq(CallTokens, 1, 1))
    /\ TreeGet(lit.a, SubSeq(CallTokens, 1, 1)).k = "list"
    /\ AbsentIntermediate(lit.a, CallTokens)
    /\ res.err = "IndexError"

----------------------------------------------------------------------------
(* Specification of a Delta applied twice: a caller builds a document,      *)
(* patches it with a one-Delta edit list, and patches the result with the   *)
(* same list again                                                          *)

Operations == {"deleted", "added", "modified"}

\* patch(base, [delta]): target is the document returned
DoApply ==
    /\ pc = "prim"
    /\ \E operation \in Operations, path \in PrimPaths, new_value \in SetValues :
        \E r \in {patch(heap, base, <<Delta(operation, path, new_value, None)>>)} :
            /\ heap' = r.h
            /\ edits' = <<Delta(operation, path, new_value, None)>>
            /\ target' = r.out
            /\ res' = [op |-> "patch", operations |-> edits', err |-> r.err,
                       out |-> r.out]
    /\ pc' = "once"
    /\ UNCHANGED <<base, lit>>

\* patch(target, [delta]) with the Delta of DoApply, which did not raise
DoApplyAgain ==
    /\ pc = "once"
    /\ res.err = ""
    /\ \E r \in {patch(heap, target, edits)} :
        /\ heap' = r.h
        /\ res' = [op |-> "patch", operations |-> edits, err |-> r.err, out |-> r.out]
    /\ pc' = "twice"
    /\ UNCHANGED <<base, target, edits, lit>>

NextTwice == DoApply \/ DoApplyAgain

SpecTwice == InitPrim /\ [][NextTwice]_vars

\* C11: idempotence: for every document and every Added or Modified Delta
\* that patch can apply to it, applying the Delta a second time raises nothing
\* and returns a document equal to the one the first application returned.
C11_SetIdempotent ==
    (pc = "twice" /\ edits[1].operation \in {"added", "modified"})
        => /\ res.err = ""
           /\ TreeEq(Value(heap, res.out), Value(heap, target))

C11_Witness ==
    /\ pc = "twice"
    /\ edits[1].operation = "added"
    /\ edits[1].path = JoinAll(<<"$">>, <<IdxTok(1), KeyTok(Keys[2])>>)
    /\ lit.a = ListT(<<>>)
    /\ res.err = ""
    /\ Value(heap, res.out) =
           ListT(<<Leaf(None), DictT(<<Keys[2]>>, <<Leaf(edits[1].new_value)>>)>>)

\* the error kind of the taxonomy for the path from t: "" when it resolves
RECURSIVE TaxonomyError(_, _)
TaxonomyError(t, toks) ==
    IF toks = <<>> THEN ""
    ELSE IF ~KindFits(t, Head(toks)) THEN "TypeError"
    ELSE IF TStep(t, Head(toks)) = 0
    THEN (IF Head(toks).t = "key" THEN "KeyError" ELSE "IndexError")
    ELSE TaxonomyError(t.it[TStep(t, Head(toks))], Tail(toks))

\* C13: get_by_json_path reports the error kind of the taxonomy: a Key token
\* on a node that is not a map, or an Index token on a node that is not a
\* sequence, fails with TypeError; a Key token absent from a map fails with
\* KeyError; an Index token at or beyond a sequence's length fails with
\* IndexError.
C13_GetErrorKinds ==
    (pc = "called" /\ res.op = "get" /\ ValidCall)
        => res.err = TaxonomyError(lit.a, CallTokens)

----------------------------------------------------------------------------
(* Specification of the path codec: a caller joins tokens to "$" one by one *)
(* and tokenizes the path it has built; or it writes a key in both forms    *)

MaxKeyLen == 2
MaxJoined == 2
MaxBodyLen == 3

\* the characters of keys: a letter, a digit, and every character the path
\* syntax gives a meaning to
KeyChars == {"a", "1", ".", "[", "]", "\"", "'", "\\", "$"}

CodecKeys == UNION {[1..n -> KeyChars] : n \in 0..MaxKeyLen}

CodecTokens == {KeyTok(k) : k \in CodecKeys} \cup {IdxTok(0), IdxTok(1), IdxTok(12)}

\* f'{base}["{_escape_key_for_brackets(key)}"]'
BracketForm(basePath, key) ==
    basePath \o <<"[", "\"">> \o _escape_key_for_brackets(key) \o <<"\"", "]">>

\* base + "." + key
DotForm(basePath, key) == basePath \o <<".">> \o key

\* key != "" and "." not in key and "[" not in key
IsSimpleKey(key) == key /= <<>> /\ ~Contains(key, ".") /\ ~Contains(key, "[")

InitCodec ==
    /\ heap = <<>>
    /\ base = None
    /\ target = None
    /\ lit = [a |-> Leaf(None), b |-> Leaf(None)]
    /\ edits = <<>>
    /\ res = [op |-> "join", tokens |-> <<>>, path |-> <<"$">>]
    /\ pc = "codec"

\* path = _join_path(path, token)
DoJoin ==
    /\ pc = "codec"
    /\ Len(res.tokens) < MaxJoined
    /\ \E token \in CodecTokens :
        res' = [op |-> "join", tokens |-> Append(res.tokens, token),
                path |-> _join_path(res.path, token)]
    /\ UNCHANGED <<heap, base, target, edits, lit, pc>>

\* _tokenize_json_path(path)
DoTokenize ==
    /\ pc = "codec"
    /\ \E r \in {_tokenize_json_path(res.path)} :
        res' = [op |-> "tokenize", tokens |-> res.tokens, path |-> res.path,
                err |-> r.err, parsed |-> r.tokens]
    /\ pc' = "parsed"
    /\ UNCHANGED <<heap, base, target, edits, lit>>

\* a simple key appended to the path in dot form and in bracket form, and both
\* paths tokenized
DoBothForms ==
    /\ pc = "codec"
    /\ \E key \in {k \in CodecKeys : IsSimpleKey(k)} :
        \E d \in {_tokenize_json_path(DotForm(res.path, key))},
           b \in {_tokenize_json_path(BracketForm(res.path, key))} :
            res' = [op |-> "forms", tokens |-> Append(res.tokens, KeyTok(key)),
                    path |-> DotForm(res.path, key),
                    bracket |-> BracketForm(res.path, key),
                    err |-> d.err, parsed |-> d.tokens,
                    bracket_err |-> b.err, bracket_parsed |-> b.tokens]
    /\ pc' = "forms"
    /\ UNCHANGED <<heap, base, target, edits, lit>>

\* what stands between the quotes of a bracket segment
QuotedBodies == UNION {[1..n -> KeyChars] : n \in 0..MaxBodyLen}

\* _tokenize_json_path of a path of one quoted bracket segment, with either
\* quote character
DoTokenizeQuoted ==
    /\ pc = "codec"
    /\ res.tokens = <<>>
    /\ \E quote \in {"\"", "'"}, body \in QuotedBodies :
        \E r \in {_tokenize_json_path(res.path \o <<"[", quote>> \o body \o <<quote, "]">>)} :
            res' = [op |-> "quoted", tokens |-> <<>>,
                    path |-> res.path \o <<"[", quote>> \o body \o <<quote, "]">>,
                    quote |-> quote, body |-> body,
                    err |-> r.err, parsed |-> r.tokens]
    /\ pc' = "quoted"
    /\ UNCHANGED <<heap, base, target, edits, lit>>

NextCodec == DoJoin \/ DoTokenize \/ DoBothForms \/ DoTokenizeQuoted

SpecCodec == InitCodec /\ [][NextCodec]_vars

\* C12: path round-trip: for every sequence of tokens, string keys (the empty
\* key and keys with ".", "[", "]", quotes or backslashes included) and
\* non-negative indices, the path built from "$" by successive _join_path
\* calls is tokenized back into exactly that sequence; and the dot form and
\* the bracket-quoted form of a simple key tokenize to the same tokens.
C12_PathRoundTrip ==
    /\ pc = "parsed" => (res.err = "" /\ res.parsed = res.tokens)
    /\ pc = "forms" => /\ res.err = "" /\ res.bracket_err = ""
                       /\ res.parsed = res.bracket_parsed
                       /\ res.parsed = res.tokens

C12_Witness ==
    /\ pc = "parsed"
    /\ res.tokens = <<KeyTok(<<"\\", "\"">>), KeyTok(<<".", "'">>)>>
    /\ res.parsed = res.tokens

\* the key a quoted body stands for by the grammar: a backslash before the
\* quote character or a backslash is an escape, before any other character it
\* is kept with that character; ok is FALSE for a body with a quote character
\* that is not escaped or a backslash at its end
RECURSIVE GrammarKey(_, _, _)
GrammarKey(body, quote, j) ==
    IF j > Len(body) THEN [ok |-> TRUE, key |-> <<>>]
    ELSE IF body[j] = quote THEN [ok |-> FALSE, key |-> <<>>]
    ELSE IF body[j] /= "\\"
    THEN [GrammarKey(body, quote, j + 1) EXCEPT !.key = <<body[j]>> \o @]
    ELSE IF j = Len(body) THEN [ok |-> FALSE, key |-> <<>>]
    ELSE IF body[j + 1] \in {quote, "\\"}
    THEN [GrammarKey(body, quote, j + 2) EXCEPT !.key = <<body[j + 1]>> \o @]
    ELSE [GrammarKey(body, quote, j + 2) EXCEPT !.key = <<"\\", body[j + 1]>> \o @]

\* C17: in a quoted bracket key only a backslash followed by the quote
\* character or by a backslash is an escape; a backslash followed by any other
\* character is preserved literally, so the key has both the backslash and
\* that character.
C17_UnknownEscapeKept ==
    (pc = "quoted" /\ GrammarKey(res.body, res.quote, 1).ok)
        => /\ res.err = ""
           /\ res.parsed = <<KeyTok(GrammarKey(res.body, res.quote, 1).key)>>

----------------------------------------------------------------------------
(* Specification of the walker: a caller builds a document and walks it     *)
(* under some combination of the options                                    *)

MaxDepthArg == 2

WalkOpts ==
    [include_root : BOOLEAN, leaves_only : BOOLEAN, include_containers : BOOLEAN,
     sort_keys : BOOLEAN, max_depth : {NoMaxDepth} \cup 0..MaxDepthArg]

\* list(iter_json_paths(obj, include_values=True, **opts))
DoWalk ==
    /\ pc = "prim"
    /\ \E opts \in WalkOpts :
        res' = [op |-> "walk", opts |-> opts, out |-> iter_json_paths(heap, base, opts)]
    /\ pc' = "called"
    /\ UNCHANGED <<heap, base, target, edits, lit>>

NextWalk == DoWalk

SpecWalk == InitPrim /\ [][NextWalk]_vars

\* the token paths of all the nodes of a tree, the root's empty one included
RECURSIVE NodePathsOf(_)
NodePathsOf(t) ==
    {<<>>} \cup UNION {{<<TokenAt(t, i)>> \o q : q \in NodePathsOf(t.it[i])} :
                          i \in 1..Len(t.it)}

\* the path string the walk gives the node at a token path
WalkPath(opts, toks) == JoinAll(IF opts.include_root THEN <<"$">> ELSE <<>>, toks)

\* how many times the walk emitted the node at a token path
Emitted(toks) ==
    Cardinality({i \in 1..Len(res.out) : res.out[i].p = WalkPath(res.opts, toks)})

Walked == pc = "called" /\ res.op = "walk"

\* C15: with max_depth = m (root at depth 0) iter_json_paths emits no path of
\* a node whose depth is greater than m, leaf or container, whatever the
\* other options are.
C15_MaxDepthCapsOutput ==
    (Walked /\ res.opts.max_depth /= NoMaxDepth)
        => \A toks \in NodePathsOf(lit.a) :
                Len(toks) > res.opts.max_depth => Emitted(toks) = 0

\* C18: for a tree-shaped document with string keys iter_json_paths emits
\* each node's path at most once under every option combination; with
\* include_containers=True and leaves_only=False (with or without
\* include_root, and no max_depth) every container and every leaf is emitted
\* exactly once.
C18_EachNodeOnce ==
    Walked
        => \A toks \in NodePathsOf(lit.a) :
                /\ Emitted(toks) <= 1
                /\ (/\ res.opts.include_containers /\ ~res.opts.leaves_only
                    /\ res.opts.max_depth = NoMaxDepth) => Emitted(toks) = 1

----------------------------------------------------------------------------
(* Specification of the walker on object graphs: a caller builds containers *)
(* that may hold each other, or themselves, and walks from the first one,   *)
(* then walks again                                                         *)

MaxObjects == 2
MaxItems == 2

\* what an item of a container of a graph of n objects can be
GraphValues(n) == {None, Num(1)} \cup {Ref(i) : i \in 1..n}

GraphObjects(n) ==
    UNION {{[k |-> "list", ks |-> <<>>, it |-> f] : f \in [1..m -> GraphValues(n)]}
           \cup UNION {{[k |-> "dict", ks |-> ks, it |-> f] : ks \in KeySeqs(m)} :
                          f \in [1..m -> GraphValues(n)]} :
           m \in 0..MaxItems}

\* the ids of the containers that are items of the containers in S
Held(h, S) ==
    UNION {{h[i].it[j].v : j \in {x \in 1..Len(h[i].it) : IsRef(h[i].it[x])}} : i \in S}

\* the ids of the containers reached from those in S by n references or fewer
RECURSIVE Within(_, _, _)
Within(h, S, n) == IF n = 0 THEN S ELSE Within(h, S \cup Held(h, S), n - 1)

\* the graphs of which every object is reached from the first
Graphs ==
    UNION {{h \in [1..n -> GraphObjects(n)] : Within(h, {1}, n) = 1..n} :
           n \in 1..MaxObjects}

InitGraph ==
    /\ heap \in Graphs
    /\ base = Ref(1)
    /\ target = None
    /\ lit = [a |-> Leaf(None), b |-> Leaf(None)]
    /\ edits = <<>>
    /\ res = NoRes
    /\ pc = "graph"

\* the ids seen_ids.add is reached for in a call of iter_json_paths, in order
entered_ids(h, obj, opts) ==
    rec(h, obj, IF opts.include_root THEN <<"$">> ELSE <<>>, 0, {}, opts).entered

\* list(iter_json_paths(obj, include_values=True, **opts))
DoWalkGraph ==
    /\ pc = "graph"
    /\ \E opts \in WalkOpts :
        res' = [op |-> "walk", opts |-> opts,
                out |-> iter_json_paths(heap, base, opts),
                entered |-> entered_ids(heap, base, opts)]
    /\ pc' = "walked"
    /\ UNCHANGED <<heap, base, target, edits, lit>>

\* the same call once more, after the first generator is exhausted
DoWalkGraphAgain ==
    /\ pc = "walked"
    /\ res' = [op |-> "walk_again", opts |-> res.opts,
               out |-> iter_json_paths(heap, base, res.opts),
               entered |-> entered_ids(heap, base, res.opts),
               first |-> res.out]
    /\ pc' = "again"
    /\ UNCHANGED <<heap, base, target, edits, lit>>

NextGraph == DoWalkGraph \/ DoWalkGraphAgain

SpecGraph == InitGraph /\ [][NextGraph]_vars

\* no container of the graph is reached from itself
Acyclic(h) == \A i \in 1..Len(h) : i \notin Within(h, Held(h, {i}), Len(h))

\* C14: the cycle guard skips only back-edges: a container that is
\* structurally shared (the same object reached by two different non-cyclic
\* paths) is visited, and its leaves are listed, under every path that
\* reaches it within one traversal call.
C14_SharedListedUnderEveryPath ==
    (/\ pc = "walked"
     /\ res.opts.max_depth = NoMaxDepth
     /\ Acyclic(heap))
        => \A toks \in LeafPathsOf(Value(heap, base)) : Emitted(toks) > 0

\* C16: traversal terminates on every finite document graph, the
\* self-referential ones included: iter_json_paths yields a finite sequence,
\* of no more than one item for the root and, for each container entered, one
\* for itself and one for each of its items; it enters each container object
\* at most once per call; and the visited set starts empty on every call, so
\* the root container is entered and a second call yields what the first did.
C16_EntersEachContainerOnce ==
    pc \in {"walked", "again"}
        => /\ \A i, j \in 1..Len(res.entered) :
                i /= j => res.entered[i] /= res.entered[j]
           /\ Len(res.out) <= 1 + Len(res.entered)
                                + Cardinality({c \in (1..Len(heap)) \X (1..MaxItems) :
                                                 /\ c[2] <= Len(heap[c[1]].it)
                                                 /\ \E i \in 1..Len(res.entered) :
                                                        res.entered[i] = c[1]})
           /\ res.entered /= <<>> /\ res.entered[1] = base.v
           /\ pc = "again" => res.out = res.first

C16_Witness ==
    /\ pc = "again"
    /\ heap = <<[k |-> "dict", ks |-> <<Keys[1], Keys[2]>>, it |-> <<Ref(2), Ref(1)>>],
                [k |-> "list", ks |-> <<>>, it |-> <<Ref(1), Num(1)>>]>>
    /\ res.opts.max_depth = NoMaxDepth
    /\ res.entered = <<1, 2>>
    /\ Len(res.out) > 0

=============================================================================
